---- MODULE Spec2Model ----
(***************************************************************************)
(* Model of the ore-miner round decoder (ore_api.py) and of the mining     *)
(* loop (main.py).                                                         *)
(*                                                                         *)
(* Representation of Python values:                                        *)
(*   bytes            a sequence of integers 0..255                        *)
(*   str              a sequence of character codes                        *)
(*   any object       [type |-> <Python type name>, val |-> <payload>]     *)
(*   a u64            an integer; TLC's integers are 32 bits wide, so the  *)
(*                    sampled u64 values are all below 2^31                *)
(*   a float amount   [whole |-> w, nanos |-> n], the decimal w + n/10^9   *)
(***************************************************************************)
EXTENDS Integers, Sequences, FiniteSets, TLC

(***************************************************************************)
(* Program constants.                                                      *)
(***************************************************************************)
RoundSize == 584
NumTiles == 25
U64Width == 8
KeyWidth == 32
LAMPORTS_PER_SOL == 1000000000

Min2(a, b) == IF a < b THEN a ELSE b

(***************************************************************************)
(* struct.unpack_from("<Q", b, i)[0]: the little-endian value of the eight *)
(* bytes at offsets i .. i+7 (0-based).  The caller checks the bounds.     *)
(***************************************************************************)
RECURSIVE LittleEndian(_, _, _)
LittleEndian(b, i, n) ==
    IF n = 0 THEN 0 ELSE b[i + 1] + 256 * LittleEndian(b, i + 1, n - 1)

unpack_u64(b, i) == LittleEndian(b, i, U64Width)

\* Python's data[a:b] on bytes: clamped to the length, never raises.
Slice(data, a, b) ==
    IF a >= Len(data) THEN <<>> ELSE SubSeq(data, a + 1, Min2(b, Len(data)))

(***************************************************************************)
(* The cursor of _parse_round: every field's offset is the sum of the      *)
(* widths of the fields before it.                                         *)
(***************************************************************************)
OffId == 0
OffDeployed == OffId + U64Width
OffSlotHash_u128 == OffDeployed + NumTiles * 16
OffSlotHash == OffDeployed + NumTiles * U64Width
OffCounts == OffSlotHash + KeyWidth
OffExpiresAt == OffCounts + NumTiles * U64Width
OffMotherlode == OffExpiresAt + U64Width
OffRentPayer == OffMotherlode + U64Width
OffTopMiner == OffRentPayer + KeyWidth
OffTopMinerReward == OffTopMiner + KeyWidth
OffTotalDeployed == OffTopMinerReward + U64Width
OffTotalVaulted == OffTotalDeployed + U64Width
OffTotalWinnings == OffTotalVaulted + U64Width
OffEnd == OffTotalWinnings + U64Width

\* The offsets at which _parse_round calls unpack_from.
U64Reads ==
    {OffId, OffExpiresAt, OffMotherlode, OffTopMinerReward, OffTotalDeployed,
     OffTotalVaulted, OffTotalWinnings}
    \cup {OffDeployed + i * U64Width : i \in 0..(NumTiles - 1)}
    \cup {OffCounts + i * U64Width : i \in 0..(NumTiles - 1)}

\* unpack_from raises struct.error when the buffer ends before offset + 8.
ParseRaises(data) == \E off \in U64Reads : off + U64Width > Len(data)

\* The offsets (0-based) of the bytes _parse_round reads from a buffer: the
\* fields before the first unpack_from that raises (the reads are made in
\* the order of their offsets); unpack_from checks the size before it
\* reads, so nothing of the word that raises is read.
BytesRead(data) ==
    LET raising == {off \in U64Reads : off + U64Width > Len(data)}
        first_raise ==
            IF raising = {} THEN OffEnd
            ELSE CHOOSE off \in raising : \A o \in raising : off <= o
    IN  {k \in 0..(Len(data) - 1) :
            /\ k < first_raise
            /\ \/ \E off \in U64Reads : off <= k /\ k < off + U64Width
               \/ OffSlotHash <= k /\ k < OffSlotHash + KeyWidth
               \/ OffRentPayer <= k /\ k < OffRentPayer + KeyWidth
               \/ OffTopMiner <= k /\ k < OffTopMiner + KeyWidth}

NoRound == [id |-> -1]

(***************************************************************************)
(* _parse_round: [raised |-> TRUE] when an unpack_from raises, otherwise   *)
(* the returned dict.  rent_payer and top_miner are read into locals and   *)
(* are not keys of the returned dict.                                      *)
(***************************************************************************)
_parse_round(data) ==
    IF ParseRaises(data)
    THEN [raised |-> TRUE, value |-> NoRound]
    ELSE [raised |-> FALSE,
          value |->
            [id |-> unpack_u64(data, OffId),
             deployed |-> [i \in 1..NumTiles |->
                             unpack_u64(data, OffDeployed + (i - 1) * U64Width)],
             slot_hash |-> Slice(data, OffSlotHash, OffSlotHash + KeyWidth),
             counts |-> [i \in 1..NumTiles |->
                             unpack_u64(data, OffCounts + (i - 1) * U64Width)],
             expires_at |-> unpack_u64(data, OffExpiresAt),
             motherlode |-> unpack_u64(data, OffMotherlode),
             top_miner_reward |-> unpack_u64(data, OffTopMinerReward),
             total_deployed |-> unpack_u64(data, OffTotalDeployed),
             total_vaulted |-> unpack_u64(data, OffTotalVaulted),
             total_winnings |-> unpack_u64(data, OffTotalWinnings)]]

(***************************************************************************)
(* Python objects as they arrive in an account's data field.               *)
(***************************************************************************)
PyStr(chars) == [type |-> "str", val |-> chars]
PyBytes(b) == [type |-> "bytes", val |-> b]
PyList(items) == [type |-> "list", val |-> items]
PyTuple(items) == [type |-> "tuple", val |-> items]
\* a dict as its sequence of <<key, value>> items
PyDict(items) == [type |-> "dict", val |-> items]
PyNone == [type |-> "NoneType", val |-> <<>>]
PyInt(n) == [type |-> "int", val |-> n]

IsSeqType(v) == v.type \in {"tuple", "list"}
IsBytesType(v) == v.type \in {"bytes", "bytearray"}
HasKey(d, k) == \E i \in 1..Len(d.val) : d.val[i][1] = k
GetKey(d, k) == d.val[CHOOSE i \in 1..Len(d.val) : d.val[i][1] = k][2]

(***************************************************************************)
(* base64.b64decode(s) with validate=False, i.e. binascii.a2b_base64 in    *)
(* its non-strict mode: characters outside the alphabet are discarded, a   *)
(* completed pad sequence ends the input, and data characters that do not  *)
(* fill their last quad raise binascii.Error.                              *)
(***************************************************************************)
PadChar == 61

IsB64Char(c) ==
    \/ (65 <= c /\ c <= 90)
    \/ (97 <= c /\ c <= 122)
    \/ (48 <= c /\ c <= 57)
    \/ c = 43
    \/ c = 47

\* table_a2b_base64
Sextet(c) ==
    IF 65 <= c /\ c <= 90 THEN c - 65
    ELSE IF 97 <= c /\ c <= 122 THEN c - 97 + 26
    ELSE IF 48 <= c /\ c <= 57 THEN c - 48 + 52
    ELSE IF c = 43 THEN 62
    ELSE 63

\* quad_pos when the character at position p is read
DataBefore(s, p) == Len(SelectSeq(SubSeq(s, 1, p - 1), IsB64Char))
QuadPos(s, p) == DataBefore(s, p) % 4

PadPositions(s) == {p \in 1..Len(s) : s[p] = PadChar}

\* `pads` when the pad at p is read: the pads since the last data character
PadsAt(s, pads, p) ==
    Cardinality({q \in pads : q <= p /\ DataBefore(s, q) = DataBefore(s, p)})

\* the pads that complete a pad sequence: quad_pos >= 2 and quad_pos + pads >= 4
StopsIn(s, pads) ==
    {p \in pads : QuadPos(s, p) >= 2 /\ QuadPos(s, p) + PadsAt(s, pads, p) >= 4}

FirstOf(S) == CHOOSE p \in S : \A q \in S : p <= q

\* byte k (0-based) of the output, from the sextets sx of the data characters
DecodeByte(sx, k) ==
    CASE k % 3 = 0 ->
            (Sextet(sx[4 * (k \div 3) + 1]) * 4 + Sextet(sx[4 * (k \div 3) + 2]) \div 16) % 256
      [] k % 3 = 1 ->
            (Sextet(sx[4 * (k \div 3) + 2]) % 16) * 16 + Sextet(sx[4 * (k \div 3) + 3]) \div 4
      [] OTHER ->
            (Sextet(sx[4 * (k \div 3) + 3]) % 4) * 64 + Sextet(sx[4 * (k \div 3) + 4])

\* n data characters were read; a pad sequence ended the input or it ran out
DecodedLen(n, stopped) == IF stopped THEN 3 * (n \div 4) + (n % 4) - 1 ELSE 3 * (n \div 4)

DecodeData(sx, stopped) ==
    IF ~stopped /\ Len(sx) % 4 # 0
    THEN [ok |-> FALSE, bytes |-> <<>>]
    ELSE [ok |-> TRUE,
          bytes |-> [j \in 1..DecodedLen(Len(sx), stopped) |-> DecodeByte(sx, j - 1)]]

DecodeUpTo(s, stops) ==
    DecodeData(SelectSeq(IF stops = {} THEN s ELSE SubSeq(s, 1, FirstOf(stops) - 1),
                         IsB64Char),
               stops # {})

a2b_base64(s) == DecodeUpTo(s, StopsIn(s, PadPositions(s)))

\* a str must be ASCII; an object that is neither str nor bytes-like (bytes,
\* bytearray, memoryview, array: val is the buffer) is a TypeError
b64decode(v) ==
    IF v.type \notin {"str", "bytes", "bytearray", "memoryview", "array"}
    THEN [ok |-> FALSE, bytes |-> <<>>]
    ELSE IF v.type = "str" /\ \E i \in 1..Len(v.val) : v.val[i] > 127
    THEN [ok |-> FALSE, bytes |-> <<>>]
    ELSE a2b_base64(v.val)

(***************************************************************************)
(* One pass of the for loop of _get_all_round_accounts over one account.   *)
(***************************************************************************)
MsgB64Tuple == "[ERROR] Base64 decode failed (tuple)"
MsgB64Dict == "[ERROR] Base64 decode failed (dict)"
MsgUnknown == "[WARN] Unknown data format - skipping."
MsgParse == "[WARN] Failed to parse round"
MsgUnavailable == "[WARN] Solana client unavailable; returning no round data."
MsgRpcFailed == "[ERROR] RPC call failed"
MsgNoData == "[WARN] RPC returned no data."
MsgDummy == "[WARN] No round accounts decoded; using dummy data."
\* f"[INFO] Parsed {len(rounds)} round accounts."
MsgParsed(n) == "[INFO] Parsed " \o ToString(n) \o " round accounts."
\* f"[ORE] Round #{latest['id']} | total_deployed=... SOL | motherlode=... SOL";
\* the two amounts are left out of the line.
MsgRound(latest) ==
    "[ORE] Round #" \o ToString(latest.id)
        \o " | total_deployed=... SOL | motherlode=... SOL"

RawNone == [none |-> TRUE, bytes |-> <<>>]
RawOf(b) == [none |-> FALSE, bytes |-> b]

\* try: raw = base64.b64decode(...) except Exception: print(...); continue
TryB64(d, msg) ==
    IF d.ok
    THEN [cont |-> FALSE, raw |-> RawOf(d.bytes), msg |-> <<>>]
    ELSE [cont |-> TRUE, raw |-> RawNone, msg |-> <<msg>>]

\* inner = data_field["data"]; raw stays None unless inner is a non-empty pair
DictInner(inner) ==
    IF IsSeqType(inner) /\ Len(inner.val) > 0
    THEN TryB64(b64decode(inner.val[1]), MsgB64Dict)
    ELSE [cont |-> FALSE, raw |-> RawNone, msg |-> <<>>]

\* The "Handle all Solana formats" chain: cont is TRUE where the code takes
\* `continue`, raw is the value of the local `raw` otherwise.
NormalizeDataField_PairOnly(data_field) ==
    IF IsSeqType(data_field) /\ Len(data_field.val) > 0
    THEN TryB64(b64decode(data_field.val[1]), MsgB64Tuple)
    ELSE [cont |-> TRUE, raw |-> RawNone, msg |-> <<MsgUnknown>>]
NormalizeDataField(data_field) ==
    IF IsSeqType(data_field) /\ Len(data_field.val) > 0
    THEN TryB64(b64decode(data_field.val[1]), MsgB64Tuple)
    ELSE IF data_field.type = "dict" /\ HasKey(data_field, "data")
    THEN DictInner(GetKey(data_field, "data"))
    ELSE IF IsBytesType(data_field)
    THEN [cont |-> FALSE, raw |-> RawOf(data_field.val), msg |-> <<>>]
    ELSE [cont |-> TRUE, raw |-> RawNone, msg |-> <<MsgUnknown>>]

\* `not raw or len(raw) < 584`
TooShort_StructSize(raw) == raw.none \/ Len(raw.bytes) = 0 \/ Len(raw.bytes) < OffEnd
TooShort(raw) == raw.none \/ Len(raw.bytes) = 0 \/ Len(raw.bytes) < RoundSize

\* try: rd = _parse_round(raw); rounds.append(rd) except Exception: print(...)
TryParse(raw, r) ==
    IF r.raised
    THEN [appended |-> FALSE, rd |-> NoRound, parsed |-> <<raw>>, msg |-> <<MsgParse>>]
    ELSE [appended |-> TRUE, rd |-> r.value, parsed |-> <<raw>>, msg |-> <<>>]

\* The loop body after the format chain, n being the chain's outcome.
FilterAndParse(n) ==
    IF n.cont
    THEN [appended |-> FALSE, rd |-> NoRound, parsed |-> <<>>, msg |-> n.msg]
    ELSE IF TooShort(n.raw)
    THEN [appended |-> FALSE, rd |-> NoRound, parsed |-> <<>>, msg |-> <<>>]
    ELSE TryParse(n.raw.bytes, _parse_round(n.raw.bytes))

\* The loop body on one account: whether a round is appended, the buffers
\* handed to _parse_round, and what is printed.
ProcessAccount(data_field) == FilterAndParse(NormalizeDataField(data_field))

\* `continue`: the scan goes on with the next account (n is the last index).
ContinueAt_Break(i, n) == n + 1
ContinueAt(i, n) == i + 1

(***************************************************************************)
(* The account source: what client.get_program_accounts does.              *)
(*   status "raises"    the RPC call raises                                *)
(*   status "no_value"  resp.value is None                                 *)
(*   status "ok"        resp.value is the sequence of data fields          *)
(***************************************************************************)
RpcRaises == [status |-> "raises", value |-> <<>>]
RpcNoValue == [status |-> "no_value", value |-> <<>>]
RpcAccounts(accs) == [status |-> "ok", value |-> accs]

RECURSIVE ScanFrom(_, _, _)
RECURSIVE ScanWith(_, _, _, _)
ScanFrom(accs, i, rs) ==
    IF i > Len(accs) THEN rs ELSE ScanWith(accs, i, rs, ProcessAccount(accs[i]))
\* o is the outcome of the loop body on accs[i]
ScanWith(accs, i, rs, o) ==
    IF o.appended
    THEN ScanFrom(accs, i + 1, Append(rs, o.rd))
    ELSE ScanFrom(accs, ContinueAt(i, Len(accs)), rs)

\* _get_all_round_accounts(): the list it returns.
_get_all_round_accounts(has_sdk, response) ==
    IF ~has_sdk THEN <<>>
    ELSE IF response.status # "ok" THEN <<>>
    ELSE ScanFrom(response.value, 1, <<>>)

(***************************************************************************)
(* get_round_snapshot.                                                     *)
(***************************************************************************)
\* lamports / LAMPORTS_PER_SOL as a decimal
LamportsToSol_Unconverted(n) == [whole |-> n, nanos |-> 0]
LamportsToSol(n) == [whole |-> n \div LAMPORTS_PER_SOL, nanos |-> n % LAMPORTS_PER_SOL]

FallbackSnapshot ==
    [round_id |-> 0,
     tiles |-> <<[id |-> 1, sol_deployed |-> [whole |-> 0, nanos |-> 100000000]]>>]

\* `not rounds`
NoRounds_IsNone(rds) == FALSE
NoRounds(rds) == Len(rds) = 0

\* max(rounds, key=lambda r: r["id"]): the first element with the largest id.
MaxById_Last(rds) == rds[Len(rds)]
MaxById(rds) ==
    rds[CHOOSE i \in 1..Len(rds) :
              /\ \A j \in 1..Len(rds) : rds[j].id <= rds[i].id
              /\ \A j \in 1..(i - 1) : rds[j].id < rds[i].id]

SnapshotOf(latest) ==
    [round_id |-> latest.id,
     tiles |-> [i \in 1..NumTiles |->
                  [id |-> i, sol_deployed |-> LamportsToSol(latest.deployed[i])]],
     motherlode |-> latest.motherlode,
     total_deployed |-> latest.total_deployed]

\* The part of get_round_snapshot after the scan; max() of an empty list raises.
SnapshotFrom(rds) ==
    IF NoRounds(rds) THEN [raised |-> FALSE, value |-> FallbackSnapshot]
    ELSE IF Len(rds) = 0 THEN [raised |-> TRUE, value |-> FallbackSnapshot]
    ELSE [raised |-> FALSE, value |-> SnapshotOf(MaxById(rds))]

get_round_snapshot(has_sdk, response) ==
    SnapshotFrom(_get_all_round_accounts(has_sdk, response))

(***************************************************************************)
(* The wire side, used to build the inputs: the 584-byte account layout of *)
(* a RoundState and the base64 text the account source sends.              *)
(***************************************************************************)
RECURSIVE ByteOf(_, _)
ByteOf(v, j) == IF j = 0 THEN v % 256 ELSE ByteOf(v \div 256, j - 1)

PackU64(v) == [j \in 1..U64Width |-> ByteOf(v, j - 1)]
PackU64s(vs) ==
    [k \in 1..(Len(vs) * U64Width) |->
        ByteOf(vs[((k - 1) \div U64Width) + 1], (k - 1) % U64Width)]

\* The twelve fields in layout order, then filler up to the account size.
EncodeRound(r, fill) ==
    LET fields ==
            PackU64(r.id) \o PackU64s(r.deployed) \o r.slot_hash \o PackU64s(r.counts)
            \o PackU64(r.expires_at) \o PackU64(r.motherlode) \o r.rent_payer
            \o r.top_miner \o PackU64(r.top_miner_reward) \o PackU64(r.total_deployed)
            \o PackU64(r.total_vaulted) \o PackU64(r.total_winnings)
    IN  fields \o [k \in 1..(RoundSize - Len(fields)) |-> fill]

B64Alphabet(v) ==
    IF v < 26 THEN 65 + v
    ELSE IF v < 52 THEN 97 + (v - 26)
    ELSE IF v < 62 THEN 48 + (v - 52)
    ELSE IF v = 62 THEN 43 ELSE 47

b64encode(b) ==
    LET n == Len(b)
        at(k) == IF k < n THEN b[k + 1] ELSE 0
        ch(k) ==
            LET g == 3 * (k \div 4)
            IN  CASE k % 4 = 0 -> B64Alphabet(at(g) \div 4)
                  [] k % 4 = 1 -> B64Alphabet((at(g) % 4) * 16 + at(g + 1) \div 16)
                  [] k % 4 = 2 -> IF g + 1 >= n THEN PadChar
                                  ELSE B64Alphabet((at(g + 1) % 16) * 4 + at(g + 2) \div 64)
                  [] OTHER -> IF g + 2 >= n THEN PadChar ELSE B64Alphabet(at(g + 2) % 64)
    IN  [j \in 1..(4 * ((n + 2) \div 3)) |-> ch(j - 1)]

(***************************************************************************)
(* Sampled inputs.                                                         *)
(***************************************************************************)
\* A RoundState whose twelve fields all differ and depend on id.
SampleRound(id) ==
    [id |-> id,
     deployed |-> [i \in 1..NumTiles |-> IF i = 1 THEN LAMPORTS_PER_SOL ELSE id * i],
     slot_hash |-> [i \in 1..KeyWidth |-> (id + i) % 256],
     counts |-> [i \in 1..NumTiles |-> 300 * i + id],
     expires_at |-> 100000 + id,
     motherlode |-> 2 * LAMPORTS_PER_SOL + id,
     rent_payer |-> [i \in 1..KeyWidth |-> 255 - i],
     top_miner |-> [i \in 1..KeyWidth |-> (2 * i + id) % 256],
     top_miner_reward |-> 70000 + id,
     total_deployed |-> LAMPORTS_PER_SOL + 24 * 13 * id,
     total_vaulted |-> 16777216 + id,
     total_winnings |-> 2147483647 - id]

\* An account blob of the given length: the layout of SampleRound(id), cut
\* short or followed by trailing bytes.
Blob(id, len, fill) ==
    LET b == EncodeRound(SampleRound(id), fill)
    IN  IF len <= Len(b) THEN SubSeq(b, 1, len)
        ELSE b \o [k \in 1..(len - Len(b)) |-> fill]

\* base64 text broken into lines of 76 characters, as MIME encoders send it.
WithNewlines(s) ==
    [j \in 1..(Len(s) + Len(s) \div 76) |->
        IF j % 77 = 0 THEN 10 ELSE s[j - j \div 77]]

DropLast(s) == SubSeq(s, 1, Len(s) - 1)

Base64Tag == PyStr(<<98, 97, 115, 101, 54, 52>>)

\* The data fields an account source may return, good and bad.
AccountUniverse ==
    << PyList(<<PyStr(b64encode(Blob(7, RoundSize, 0))), Base64Tag>>),
       PyTuple(<<PyStr(WithNewlines(b64encode(Blob(9, RoundSize + 16, 170)))), Base64Tag>>),
       PyDict(<< <<"data", PyList(<<PyStr(b64encode(Blob(3, RoundSize, 255))), Base64Tag>>)>>,
                 <<"space", PyInt(RoundSize)>> >>),
       PyBytes(Blob(5, RoundSize + 1, 1)),
       PyList(<<>>),
       PyList(<<PyStr(DropLast(b64encode(Blob(11, RoundSize, 0)))), Base64Tag>>),
       PyBytes(Blob(13, RoundSize - 1, 0)),
       PyDict(<< <<"data", PyStr(b64encode(Blob(15, RoundSize, 0)))>> >>),
       PyDict(<< <<"data", PyTuple(<<PyStr(DropLast(b64encode(Blob(17, RoundSize, 0))))>>)>> >>) >>

(***************************************************************************)
(* Bounds of the model.                                                    *)
(***************************************************************************)
MaxAccounts == 3
MaxRounds == 2

(***************************************************************************)
(* State.                                                                  *)
(*   orig, blob, decoded, dpc      a RoundState, its account bytes and     *)
(*                                 what _parse_round returns for them      *)
(*   sdk                           _SOLANA_AVAILABLE (client, Pubkey set)  *)
(*   resp, idx, rounds, snapshot,  one call of get_round_snapshot: the     *)
(*   parse_calls, diag, spc        account source's answer, the loop index,*)
(*                                 the list `rounds`, the result, the      *)
(*                                 lengths of the buffers handed to        *)
(*                                 _parse_round, the printed diagnostics   *)
(*   the rest                      run_loop: its arguments, its locals,    *)
(*                                 the ledger sink and what was called     *)
(*   interrupt_at                  the iteration in which the run is       *)
(*                                 interrupted from outside, 0 for never   *)
(***************************************************************************)
VARIABLES orig, blob, decoded, dpc,
          sdk, resp, idx, rounds, snapshot, parse_calls, diag, spc,
          tx_sdk, dry_run, rounds_arg, interrupt_at, sleep, pc, total_pnl,
          round_counter,
          round_data, round_id, chosen_tiles, tile_pos, ledger,
          profits, recorded_at, deploys, deploy_failed, notices, ledger_failures,
          sleeps, fetches

decVars == <<orig, blob, decoded, dpc>>
scanVars == <<resp, idx, rounds, snapshot, parse_calls, diag, spc>>
loopVars == <<tx_sdk, dry_run, rounds_arg, interrupt_at, sleep, pc, total_pnl,
              round_counter,
              round_data, round_id, chosen_tiles, tile_pos, ledger,
              profits, recorded_at, deploys, deploy_failed, notices,
              ledger_failures, sleeps, fetches>>
vars == <<decVars, sdk, scanVars, loopVars>>

NoResult == [raised |-> FALSE, value |-> NoRound]
NoSnapshot == [raised |-> FALSE, value |-> [round_id |-> -1]]

DecIdle ==
    /\ orig = NoRound /\ blob = <<>> /\ decoded = NoResult /\ dpc = "idle"
ScanIdle ==
    /\ resp = RpcNoValue /\ idx = 0 /\ rounds = <<>> /\ snapshot = NoSnapshot
    /\ parse_calls = <<>> /\ diag = <<>> /\ spc = "idle"
\* None for `rounds`
NoBound == [none |-> TRUE, n |-> 0]
Bound(n) == [none |-> FALSE, n |-> n]
LoopIdle ==
    /\ tx_sdk = FALSE /\ dry_run = TRUE /\ rounds_arg = Bound(0) /\ sleep = 0
    /\ interrupt_at = 0
    /\ pc = "idle" /\ total_pnl = 0 /\ round_counter = 1
    /\ round_data = NoSnapshot.value /\ round_id = 0 /\ chosen_tiles = <<>>
    /\ tile_pos = 0 /\ ledger = <<>> /\ profits = <<>> /\ recorded_at = <<>>
    /\ deploys = <<>> /\ deploy_failed = FALSE /\ notices = <<>>
    /\ ledger_failures = 0 /\ sleeps = 0 /\ fetches = 0

(***************************************************************************)
(* SpecDecode: _parse_round on the account bytes of sampled RoundStates.   *)
(***************************************************************************)
IdSamples == {0, 7, 65539, 2147483647}
KeySamples ==
    {[i \in 1..KeyWidth |-> 0], [i \in 1..KeyWidth |-> 255], [i \in 1..KeyWidth |-> 7 * i]}
DeployedSamples ==
    {[i \in 1..NumTiles |-> 0],
     [i \in 1..NumTiles |-> IF i = 1 THEN LAMPORTS_PER_SOL ELSE 0],
     [i \in 1..NumTiles |-> 65536 * i + 255]}
ScalarSamples == {0, 2147483647}
\* what may follow the 584 bytes of an account
Tails == {<<>>, <<1>>, <<255, 254, 253, 252, 251, 250, 249, 248, 9>>}
Fills == {0, 255}

GenRound(id, dep, key, s) ==
    [id |-> id,
     deployed |-> dep,
     slot_hash |-> key,
     counts |-> [i \in 1..NumTiles |-> dep[NumTiles + 1 - i] + i],
     expires_at |-> (s \div 2) + 1,
     motherlode |-> (s \div 3) + 2,
     rent_payer |-> [i \in 1..KeyWidth |-> (key[i] + 3 * i) % 256],
     top_miner |-> [i \in 1..KeyWidth |-> (key[i] + 5 * i + 1) % 256],
     top_miner_reward |-> (s \div 5) + 3,
     total_deployed |-> (s \div 7) + 4,
     total_vaulted |-> (s \div 11) + 5,
     total_winnings |-> s]

DecodeInit ==
    /\ \E id \in IdSamples, dep \in DeployedSamples, key \in KeySamples, s \in ScalarSamples :
          orig = GenRound(id, dep, key, s)
    /\ blob = <<>> /\ decoded = NoResult /\ dpc = "state"
    /\ sdk = FALSE /\ ScanIdle /\ LoopIdle

\* The account holds the layout of the RoundState, then possibly more bytes.
Encode ==
    /\ dpc = "state"
    /\ \E fill \in Fills, tail \in Tails : blob' = EncodeRound(orig, fill) \o tail
    /\ dpc' = "encoded"
    /\ UNCHANGED <<orig, decoded, sdk, scanVars, loopVars>>

Decode ==
    /\ dpc = "encoded"
    /\ decoded' = _parse_round(blob)
    /\ dpc' = "decoded"
    /\ UNCHANGED <<orig, blob, sdk, scanVars, loopVars>>

DecodeNext == Encode \/ Decode
SpecDecode == DecodeInit /\ [][DecodeNext]_vars

(***************************************************************************)
(* SpecScan: one call of get_round_snapshot, one account at a time.        *)
(***************************************************************************)
ScanInit ==
    /\ sdk \in BOOLEAN
    /\ \/ resp \in {RpcRaises, RpcNoValue}
       \/ \E n \in 0..MaxAccounts : \E f \in [1..n -> 1..Len(AccountUniverse)] :
             resp = RpcAccounts([i \in 1..n |-> AccountUniverse[f[i]]])
    /\ idx = 0 /\ rounds = <<>> /\ snapshot = NoSnapshot
    /\ parse_calls = <<>> /\ diag = <<>> /\ spc = "call"
    /\ DecIdle /\ LoopIdle

\* _get_all_round_accounts up to the for loop.
ScanCall ==
    /\ spc = "call"
    /\ IF ~sdk
       THEN diag' = Append(diag, MsgUnavailable) /\ spc' = "scanned"
       ELSE IF resp.status = "raises"
       THEN diag' = Append(diag, MsgRpcFailed) /\ spc' = "scanned"
       ELSE IF resp.status = "no_value"
       THEN diag' = Append(diag, MsgNoData) /\ spc' = "scanned"
       ELSE diag' = diag /\ spc' = "loop"
    /\ idx' = 1
    /\ rounds' = <<>>
    /\ UNCHANGED <<decVars, sdk, resp, snapshot, parse_calls, loopVars>>

\* What one pass of the for loop does to the state, o being its outcome.
ScanEffect(o) ==
    /\ rounds' = IF o.appended THEN Append(rounds, o.rd) ELSE rounds
    /\ parse_calls' = parse_calls \o [k \in 1..Len(o.parsed) |-> Len(o.parsed[k])]
    /\ diag' = diag \o o.msg
    /\ idx' = IF o.appended THEN idx + 1 ELSE ContinueAt(idx, Len(resp.value))

\* One pass of the for loop.
ScanAccount ==
    /\ spc = "loop"
    /\ idx <= Len(resp.value)
    /\ ScanEffect(ProcessAccount(resp.value[idx]))
    /\ UNCHANGED <<decVars, sdk, resp, snapshot, spc, loopVars>>

\* The for loop is over: print the count and return the list.
ScanReturn ==
    /\ spc = "loop"
    /\ idx > Len(resp.value)
    /\ diag' = Append(diag, MsgParsed(Len(rounds)))
    /\ spc' = "scanned"
    /\ UNCHANGED <<decVars, sdk, resp, idx, rounds, snapshot, parse_calls, loopVars>>

\* get_round_snapshot after the scan.
BuildSnapshot ==
    /\ spc = "scanned"
    /\ snapshot' = SnapshotFrom(rounds)
    /\ diag' = IF NoRounds(rounds) THEN Append(diag, MsgDummy)
               ELSE IF snapshot'.raised THEN diag
               ELSE Append(diag, MsgRound(MaxById(rounds)))
    /\ spc' = "done"
    /\ UNCHANGED <<decVars, sdk, resp, idx, rounds, parse_calls, loopVars>>

ScanNext == ScanCall \/ ScanAccount \/ ScanReturn \/ BuildSnapshot
SpecScan == ScanInit /\ [][ScanNext]_vars

(***************************************************************************)
(* Spec: run_loop.                                                         *)
(*                                                                         *)
(* strategy.py is not part of the sources: pick_tiles, simulate_profit and *)
(* record_profit are the collaborators the design describes.  pick_tiles   *)
(* returns an ordered set of tiles, simulate_profit a signed amount (here  *)
(* a whole number of ledger units), record_profit appends one record to    *)
(* the ledger or reports a failure.                                        *)
(***************************************************************************)
AllTiles == [i \in 1..NumTiles |-> i]
TileChoices == {<<>>, <<3, 1>>, AllTiles}
ProfitValues == {-3, 5}
SleepValues == {0, 5}
\* 0.01 SOL
DeployAmount == [whole |-> 0, nanos |-> 10000000]

\* what the account source answers in a run of the loop
LoopResponses ==
    {RpcRaises,
     RpcAccounts(<<AccountUniverse[4], AccountUniverse[2], AccountUniverse[7]>>)}

pick_tiles(round_snapshot) == TileChoices
simulate_profit(tiles) == ProfitValues
\* record_profit: the ledger after a successful append
record_profit(log, rid, tiles, p, total) ==
    Append(log, [round_id |-> rid, chosen_tiles |-> tiles,
                 round_profit |-> p, cumulative_profit |-> total])

\* round_data.get("round_id", 0)
GetRoundId_Default(d) == 0
GetRoundId(d) == IF "round_id" \in DOMAIN d THEN d.round_id ELSE 0

\* deploy() raises RuntimeError before its try block when the SDK is missing
DeployRaises == ~sdk \/ ~tx_sdk

\* `if dry_run:` selects the branch that only prints
CallsDeploy_Always(dry) == TRUE
CallsDeploy(dry) == ~dry

\* total_pnl += profit
Accumulate_Overwrite(total, p) == p
Accumulate(total, p) == total + p

\* `while rounds is None or round_counter <= rounds`
LoopCondition_Strict(bound, counter) == bound.none \/ counter < bound.n
LoopCondition(bound, counter) == bound.none \/ counter <= bound.n

\* `if rounds is not None and round_counter > rounds: break`; the value
\* record_profit returned is not looked at
LoopBreaks_OnLedgerFailure(recorded, bound, counter) ==
    ~recorded \/ (~bound.none /\ counter > bound.n)
LoopBreaks_Never(recorded, bound, counter) == FALSE
LoopBreaks(recorded, bound, counter) == ~bound.none /\ counter > bound.n

\* __main__: `rounds = args.rounds if args.rounds and args.rounds > 0 else None`
CliRounds_PassThrough(arg) == Bound(arg)
CliRounds(arg) == IF arg # 0 /\ arg > 0 THEN Bound(arg) ELSE NoBound
\* __main__: `sleep = max(args.sleep, 0.0)`
CliSleep(arg) == IF arg > 0 THEN arg ELSE 0
\* values of --rounds and --sleep
CliRoundsArgs == -1..MaxRounds
CliSleepArgs == {-5, 0, 5}

\* run_loop is entered from a caller that passes a bound of its own, or from
\* the command line.  A run without a bound is one that somebody stops: it
\* is interrupted in the pick_tiles call of one of its first MaxRounds + 1
\* iterations.
Init ==
    /\ sdk \in BOOLEAN
    /\ tx_sdk \in BOOLEAN
    /\ sdk \/ ~tx_sdk
    /\ dry_run \in BOOLEAN
    /\ rounds_arg \in {Bound(n) : n \in 0..MaxRounds} \cup {CliRounds(a) : a \in CliRoundsArgs}
    /\ interrupt_at \in IF rounds_arg.none THEN 1..(MaxRounds + 1) ELSE {0}
    /\ sleep \in SleepValues \cup {CliSleep(a) : a \in CliSleepArgs}
    /\ pc = "Fetching"
    /\ total_pnl = 0
    /\ round_counter = 1
    /\ round_data = NoSnapshot.value /\ round_id = 0 /\ chosen_tiles = <<>>
    /\ tile_pos = 0 /\ ledger = <<>> /\ profits = <<>> /\ recorded_at = <<>>
    /\ deploys = <<>> /\ deploy_failed = FALSE /\ notices = <<>>
    /\ ledger_failures = 0 /\ sleeps = 0 /\ fetches = 0
    /\ DecIdle /\ ScanIdle

\* The state after get_round_snapshot() returned s (or raised).
FetchEffect(s) ==
    IF s.raised
    THEN pc' = "Raised" /\ UNCHANGED <<round_data, round_id>>
    ELSE /\ round_data' = s.value
         /\ round_id' = GetRoundId(s.value)
         /\ pc' = "Deciding"

\* get_round_snapshot() on each answer of the account source, with the SDK
\* and without it.
ResultsWithSdk == {get_round_snapshot(TRUE, r) : r \in LoopResponses}
ResultsWithoutSdk == {get_round_snapshot(FALSE, r) : r \in LoopResponses}
SnapshotResults == IF sdk THEN ResultsWithSdk ELSE ResultsWithoutSdk

\* Fetching: the loop condition holds; round_data = get_round_snapshot().
Fetch ==
    /\ pc = "Fetching"
    /\ LoopCondition(rounds_arg, round_counter)
    /\ \E s \in SnapshotResults : FetchEffect(s)
    /\ deploys' = <<>> /\ deploy_failed' = FALSE /\ notices' = <<>>
    /\ fetches' = fetches + 1
    /\ UNCHANGED <<decVars, sdk, scanVars, tx_sdk, dry_run, rounds_arg, interrupt_at,
                   sleep,
                   total_pnl, round_counter, chosen_tiles, tile_pos, ledger,
                   profits, recorded_at, ledger_failures, sleeps>>

\* The loop condition fails: run_loop returns.
LoopExit ==
    /\ pc = "Fetching"
    /\ ~LoopCondition(rounds_arg, round_counter)
    /\ pc' = "Done"
    /\ UNCHANGED <<decVars, sdk, scanVars, tx_sdk, dry_run, rounds_arg, interrupt_at,
                   sleep,
                   total_pnl, round_counter, round_data, round_id, chosen_tiles,
                   tile_pos, ledger, profits, recorded_at, deploys, deploy_failed,
                   notices, ledger_failures, sleeps, fetches>>

\* Deciding: chosen_tiles = pick_tiles(round_data).  An interruption of the
\* call (KeyboardInterrupt) is caught nowhere and leaves run_loop.
Decide ==
    /\ pc = "Deciding"
    /\ IF round_counter = interrupt_at
       THEN /\ pc' = "Raised"
            /\ UNCHANGED <<chosen_tiles, tile_pos>>
       ELSE /\ chosen_tiles' \in pick_tiles(round_data)
            /\ tile_pos' = 1
            /\ pc' = "Acting"
    /\ UNCHANGED <<decVars, sdk, scanVars, tx_sdk, dry_run, rounds_arg, interrupt_at,
                   sleep,
                   total_pnl, round_counter, round_data, round_id, ledger,
                   profits, recorded_at, deploys, deploy_failed, notices,
                   ledger_failures, sleeps, fetches>>

\* Acting, dry run: print the notice for the next chosen tile.
ActNotice ==
    /\ pc = "Acting"
    /\ tile_pos <= Len(chosen_tiles)
    /\ ~CallsDeploy(dry_run)
    /\ notices' = Append(notices, [tile |-> chosen_tiles[tile_pos], amount |-> DeployAmount])
    /\ tile_pos' = tile_pos + 1
    /\ UNCHANGED <<decVars, sdk, scanVars, tx_sdk, dry_run, rounds_arg, interrupt_at,
                   sleep, pc,
                   total_pnl, round_counter, round_data, round_id, chosen_tiles,
                   ledger, profits, recorded_at, deploys, deploy_failed,
                   ledger_failures, sleeps, fetches>>

\* Acting, live: deploy(tile_id, 0.01) for the next chosen tile.  The call
\* raises when the SDK is missing, and the exception leaves run_loop;
\* otherwise the transaction is sent, or fails inside deploy's try block.
ActDeploy ==
    /\ pc = "Acting"
    /\ tile_pos <= Len(chosen_tiles)
    /\ CallsDeploy(dry_run)
    /\ deploys' = Append(deploys, [tile |-> chosen_tiles[tile_pos], amount |-> DeployAmount])
    /\ IF DeployRaises
       THEN /\ pc' = "Raised"
            /\ deploy_failed' = TRUE
            /\ tile_pos' = tile_pos
       ELSE /\ pc' = pc
            /\ \E sent \in BOOLEAN : deploy_failed' = (deploy_failed \/ ~sent)
            /\ tile_pos' = tile_pos + 1
    /\ UNCHANGED <<decVars, sdk, scanVars, tx_sdk, dry_run, rounds_arg, interrupt_at,
                   sleep,
                   total_pnl, round_counter, round_data, round_id, chosen_tiles,
                   ledger, profits, recorded_at, notices, ledger_failures, sleeps, fetches>>

\* The for loop over the chosen tiles is over.
ActDone ==
    /\ pc = "Acting"
    /\ tile_pos > Len(chosen_tiles)
    /\ pc' = "Recording"
    /\ UNCHANGED <<decVars, sdk, scanVars, tx_sdk, dry_run, rounds_arg, interrupt_at,
                   sleep,
                   total_pnl, round_counter, round_data, round_id, chosen_tiles,
                   tile_pos, ledger, profits, recorded_at, deploys, deploy_failed,
                   notices, ledger_failures, sleeps, fetches>>

\* Recording: the profit, the running total, the ledger record, the round
\* counter and the break test.
Record ==
    /\ pc = "Recording"
    /\ \E p \in simulate_profit(chosen_tiles), recorded \in BOOLEAN :
          /\ total_pnl' = Accumulate(total_pnl, p)
          /\ profits' = Append(profits, p)
          /\ IF recorded
             THEN /\ ledger' = record_profit(ledger, round_id, chosen_tiles, p, total_pnl')
                  /\ recorded_at' = Append(recorded_at, round_counter)
                  /\ ledger_failures' = ledger_failures
             ELSE /\ ledger' = ledger
                  /\ recorded_at' = recorded_at
                  /\ ledger_failures' = ledger_failures + 1
          /\ round_counter' = round_counter + 1
          /\ pc' = IF LoopBreaks(recorded, rounds_arg, round_counter') THEN "Done"
                   ELSE IF sleep > 0 THEN "Pacing"
                   ELSE "Fetching"
    /\ UNCHANGED <<decVars, sdk, scanVars, tx_sdk, dry_run, rounds_arg, interrupt_at,
                   sleep,
                   round_data, round_id, chosen_tiles, tile_pos, deploys,
                   deploy_failed, notices, sleeps, fetches>>

\* Pacing: time.sleep(sleep).
Pace_SkipsFetch ==
    /\ pc = "Pacing"
    /\ sleeps' = sleeps + 1
    /\ pc' = "Deciding"
    /\ UNCHANGED <<decVars, sdk, scanVars, tx_sdk, dry_run, rounds_arg, interrupt_at,
                   sleep,
                   total_pnl, round_counter, round_data, round_id, chosen_tiles,
                   tile_pos, ledger, profits, recorded_at, deploys, deploy_failed,
                   notices, ledger_failures, fetches>>
Pace ==
    /\ pc = "Pacing"
    /\ sleeps' = sleeps + 1
    /\ pc' = "Fetching"
    /\ UNCHANGED <<decVars, sdk, scanVars, tx_sdk, dry_run, rounds_arg, interrupt_at,
                   sleep,
                   total_pnl, round_counter, round_data, round_id, chosen_tiles,
                   tile_pos, ledger, profits, recorded_at, deploys, deploy_failed,
                   notices, ledger_failures, fetches>>

Next == Fetch \/ LoopExit \/ Decide \/ ActNotice \/ ActDeploy \/ ActDone \/ Record \/ Pace
Spec == Init /\ [][Next]_vars
\* The single thread of run_loop keeps running: a step that can be taken is
\* taken.
FairSpec == Spec /\ WF_vars(Next)

(***************************************************************************)
(* Properties.                                                             *)
(***************************************************************************)
RECURSIVE SumFirst(_, _)
SumFirst(ps, k) == IF k = 0 THEN 0 ELSE SumFirst(ps, k - 1) + ps[k]

\* C1: in a dry run deploy is never called, whatever tiles are chosen: no
\* state of a dry run holds a deploy call.
C1_DryRunNeverDeploys == dry_run => deploys = <<>>

\* A dry run that has gone through all 25 chosen tiles of its second round.
C1_Witness ==
    /\ dry_run /\ pc = "Recording" /\ round_counter = 2
    /\ chosen_tiles = AllTiles /\ Len(notices) = NumTiles

\* C2: in a live run a failed deploy on one tile, the sink being unavailable
\* included, does not end the round: the run never stops on the exception,
\* and Recording is reached with a deploy attempted on every chosen tile.
C2_DeployFailureDoesNotAbortRound ==
    ~dry_run =>
        /\ ~(pc = "Raised" /\ deploy_failed)
        /\ pc = "Recording" => Len(deploys) = Len(chosen_tiles)

\* The normalization of each sample account, computed once.
NormalizedUniverse ==
    [k \in DOMAIN AccountUniverse |-> NormalizeDataField(AccountUniverse[k])]
Normalized(acc) ==
    IF \E k \in DOMAIN AccountUniverse : AccountUniverse[k] = acc
    THEN NormalizedUniverse[CHOOSE k \in DOMAIN AccountUniverse : AccountUniverse[k] = acc]
    ELSE NormalizeDataField(acc)
\* the number of bytes an account's data field normalizes to (0 when it is
\* skipped by the normalizer or normalizes to None)
NormalizedLen(acc) ==
    LET n == Normalized(acc)
    IN  IF n.cont \/ n.raw.none THEN 0 ELSE Len(n.raw.bytes)
IsValidAccount(acc) == NormalizedLen(acc) >= RoundSize
DecodeOf(acc) == _parse_round(Normalized(acc).raw.bytes).value
DecodesOf(good) == [i \in 1..Len(good) |-> DecodeOf(good[i])]
ValidDecodes(accs) == DecodesOf(SelectSeq(accs, IsValidAccount))

\* C3: when no account is decodable, or the account source is unavailable,
\* raises or returns no value, get_round_snapshot returns the fallback
\* snapshot (round_id 0, one synthetic tile); it never raises.
C3_FallbackWhenNothingDecodes ==
    spc = "done" =>
        /\ ~snapshot.raised
        /\ (\/ ~sdk
            \/ resp.status # "ok"
            \/ \A i \in 1..Len(resp.value) : ~IsValidAccount(resp.value[i]))
           => /\ snapshot.value = FallbackSnapshot
              /\ snapshot.value.round_id = 0
              /\ Len(snapshot.value.tiles) = 1

\* Three accounts were returned and every one of them was rejected.
C3_Witness ==
    /\ spc = "done" /\ sdk /\ resp.status = "ok" /\ Len(resp.value) = 3
    /\ rounds = <<>> /\ Len(diag) >= 3
    /\ snapshot.value.round_id = 0

\* C4: accounts with an unrecognized shape, base64 that does not decode, or
\* fewer than 584 bytes are skipped and the scan goes on: at every point of
\* the scan the collected rounds are exactly the decodes of the valid
\* accounts seen so far, in order, and the scan ends only after the last
\* account.
C4_PerAccountIsolation ==
    (sdk /\ resp.status = "ok" /\ spc \in {"loop", "scanned", "done"}) =>
        /\ idx <= Len(resp.value) + 1
        /\ rounds = ValidDecodes(SubSeq(resp.value, 1, idx - 1))
        /\ spc # "loop" => idx = Len(resp.value) + 1

\* A bad account came first and the two valid ones after it were collected.
C4_Witness ==
    /\ spc = "done" /\ Len(resp.value) = 3 /\ Len(rounds) = 2
    /\ ~IsValidAccount(resp.value[1])
    /\ rounds[1].id # rounds[2].id

DistinctIds(rs) == \A i, j \in 1..Len(rs) : i # j => rs[i].id # rs[j].id
Swapped(accs, i, j) ==
    [k \in 1..Len(accs) |-> IF k = i THEN accs[j] ELSE IF k = j THEN accs[i] ELSE accs[k]]

\* C5: when the decoded rounds have distinct ids, the snapshot is built from
\* the round with the largest id, and no reordering of the accounts changes
\* it: exchanging any two neighbouring accounts of the response gives the
\* same snapshot (every list of accounts is a start state, and every
\* reordering is a sequence of such exchanges).
C5_LatestRoundAnyOrder ==
    (spc = "done" /\ rounds # <<>> /\ DistinctIds(rounds)) =>
        /\ ~snapshot.raised
        /\ \E i \in 1..Len(rounds) :
              /\ \A j \in 1..Len(rounds) : rounds[j].id <= rounds[i].id
              /\ snapshot.value = SnapshotOf(rounds[i])
        /\ \A i \in 1..(Len(resp.value) - 1) :
              get_round_snapshot(sdk, RpcAccounts(Swapped(resp.value, i, i + 1))) = snapshot

\* Three rounds with distinct ids, the latest of them decoded first.
C5_Witness ==
    /\ spc = "done" /\ Len(rounds) = 3 /\ DistinctIds(rounds)
    /\ rounds[1].id > rounds[2].id /\ rounds[1].id > rounds[3].id
    /\ snapshot.value.round_id = rounds[1].id

\* C6: the running total starts at 0 and is the sum of the round profits so
\* far; the cumulative_profit of the record written in iteration k is
\* p1 + ... + pk, whether or not earlier records were written.
C6_CumulativeIsSumOfProfits ==
    /\ round_counter = 1 => total_pnl = 0
    /\ pc \in {"Fetching", "Deciding", "Acting", "Recording", "Pacing", "Done", "Raised"}
          => /\ Len(profits) = round_counter - 1
             /\ total_pnl = SumFirst(profits, Len(profits))
             /\ Len(recorded_at) = Len(ledger)
             /\ \A i \in 1..Len(ledger) :
                   /\ ledger[i].round_profit = profits[recorded_at[i]]
                   /\ ledger[i].cumulative_profit = SumFirst(profits, recorded_at[i])

\* Two rounds with profits 5 and -3 are over and the second record says 2.
C6_Witness ==
    /\ pc = "Done" /\ Len(ledger) = 2
    /\ ledger[1].round_profit = 5 /\ ledger[2].round_profit = -3
    /\ ledger[2].cumulative_profit = 2 /\ total_pnl = 2

\* C7: a failed ledger append does not stop the loop: the step that fails to
\* record still advances the round counter and goes on to Pacing (or to
\* Fetching when the pacing interval is 0, or ends when the round bound is
\* reached), and the loop returns only at its round bound.
C7_LedgerFailureNotFatal ==
    /\ [](pc = "Done" => (~rounds_arg.none /\ round_counter = rounds_arg.n + 1))
    /\ [][(pc = "Recording" /\ ledger_failures' > ledger_failures) =>
            /\ round_counter' = round_counter + 1
            /\ pc' = IF ~rounds_arg.none /\ round_counter' > rounds_arg.n THEN "Done"
                     ELSE IF sleep > 0 THEN "Pacing" ELSE "Fetching"]_vars

\* The first round's record failed; the loop paced, ran the second round,
\* recorded it and returned.
C7_Witness ==
    /\ pc = "Done" /\ ledger_failures = 1 /\ recorded_at = <<2>>
    /\ sleep > 0 /\ sleeps = 1 /\ round_counter = 3

\* C8: _parse_round is never handed fewer than 584 bytes: every account whose
\* normalized bytes are missing, empty or shorter is passed over without a
\* call and adds no round.
C8_NoShortBlobDecoded ==
    /\ \A k \in 1..Len(parse_calls) : parse_calls[k] >= RoundSize
    /\ (sdk /\ resp.status = "ok" /\ spc \in {"loop", "scanned", "done"}) =>
          /\ Len(parse_calls) =
                Cardinality({i \in 1..Min2(idx - 1, Len(resp.value)) :
                                NormalizedLen(resp.value[i]) >= RoundSize})
          /\ Len(rounds) <= Len(parse_calls)

\* A 583-byte account was scanned, next to one that was decoded.
C8_Witness ==
    /\ spc = "done" /\ Len(resp.value) = 2
    /\ NormalizedLen(resp.value[1]) = RoundSize - 1
    /\ Len(parse_calls) = 1 /\ Len(rounds) = 1

RoundFields ==
    {"id", "deployed", "slot_hash", "counts", "expires_at", "motherlode",
     "rent_payer", "top_miner", "top_miner_reward", "total_deployed",
     "total_vaulted", "total_winnings"}
ReturnedFields == RoundFields \ {"rent_payer", "top_miner"}

\* C9: decoding the account bytes of a RoundState gives back the RoundState,
\* field for field, for all twelve fields.
C9_RoundTripAllFields ==
    dpc = "decoded" =>
        /\ ~decoded.raised
        /\ \A f \in RoundFields :
              f \in DOMAIN decoded.value /\ decoded.value[f] = orig[f]

\* What does hold of the round trip: the ten keys _parse_round returns.
RoundTripReturnedFields ==
    dpc = "decoded" =>
        /\ ~decoded.raised
        /\ DOMAIN decoded.value = ReturnedFields
        /\ \A f \in ReturnedFields : decoded.value[f] = orig[f]

\* C10: on 584 bytes or more _parse_round succeeds, reads no byte at offset
\* 584 or beyond, and returns the same for every continuation of the first
\* 584 bytes.
C10_DecodeTotalTailIndependent ==
    (dpc = "decoded" /\ Len(blob) >= RoundSize) =>
        /\ ~decoded.raised
        /\ \A k \in BytesRead(blob) : k < RoundSize
        /\ \A tail \in Tails : _parse_round(SubSeq(blob, 1, RoundSize) \o tail) = decoded

\* An account of 593 bytes, the trailing ones not zero, was decoded.
C10_Witness ==
    /\ dpc = "decoded" /\ Len(blob) = RoundSize + 9
    /\ blob[RoundSize + 1] = 255 /\ ~decoded.raised
    /\ decoded.value.id = 65539

\* the first k iteration numbers, in order
Iterations(k) == [i \in 1..k |-> i]

\* C11: a run bounded to K rounds whose collaborators return ends after
\* exactly K iterations; record_profit is called once in each, so that K
\* records are in the ledger, in iteration order, when every append
\* succeeded; no record already written is changed; with K = 0 there is no
\* fetch, no deployment and no record.
C11_BoundedRunTerminates ==
    /\ [](~rounds_arg.none =>
            /\ round_counter <= rounds_arg.n + 1
            /\ Len(profits) = round_counter - 1
            /\ Len(ledger) + ledger_failures = round_counter - 1
            /\ pc = "Done" =>
                  /\ round_counter = rounds_arg.n + 1
                  /\ fetches = rounds_arg.n
                  /\ ledger_failures = 0 => recorded_at = Iterations(rounds_arg.n)
            /\ rounds_arg.n = 0 =>
                  /\ fetches = 0 /\ deploys = <<>> /\ notices = <<>>
                  /\ ledger = <<>> /\ ledger_failures = 0)
    /\ [][/\ Len(ledger') \in {Len(ledger), Len(ledger) + 1}
          /\ \A i \in 1..Len(ledger) : ledger'[i] = ledger[i]]_vars
    /\ (~rounds_arg.none /\ pc # "Raised") ~> (pc = "Done" \/ pc = "Raised")

\* A live run bounded to two rounds has returned with its two records.
C11_Witness ==
    /\ pc = "Done" /\ rounds_arg = Bound(2) /\ ~dry_run
    /\ recorded_at = <<1, 2>> /\ Len(ledger) = 2 /\ fetches = 2
    /\ Len(ledger[1].chosen_tiles) = 2

\* C12: with no round bound, which is what the command line passes for
\* --rounds 0 and below, the loop never returns: its while test holds
\* whenever it is evaluated, and every Recording step is followed by the
\* next round's Fetching step, with and without pacing.  (An unbounded run
\* is followed until it is interrupted from outside.)
C12_UnboundedRunGoesOn ==
    /\ [](/\ \A a \in CliRoundsArgs :
                CliRounds(a) = IF a <= 0 THEN NoBound ELSE Bound(a)
          /\ rounds_arg.none =>
                /\ pc # "Done"
                /\ LoopCondition(rounds_arg, round_counter)
                /\ ~LoopBreaks(TRUE, rounds_arg, round_counter)
                /\ ~LoopBreaks(FALSE, rounds_arg, round_counter))
    /\ (rounds_arg.none /\ pc = "Recording") ~> (pc = "Fetching")
    /\ \A k \in 1..MaxRounds :
          (rounds_arg.none /\ pc = "Recording" /\ round_counter = k) ~> (fetches = k + 1)

\* An unbounded run without pacing has recorded a round and fetched again.
C12_Witness ==
    /\ rounds_arg.none /\ sleep = 0 /\ pc = "Deciding"
    /\ fetches = 2 /\ Len(profits) = 1 /\ sleeps = 0

\* What the three recognized shapes of a data field are to become.
IsPair(v) == IsSeqType(v) /\ Len(v.val) > 0
IsKeyedPair(v) == v.type = "dict" /\ HasKey(v, "data") /\ IsPair(GetKey(v, "data"))
Rejection == [rejected |-> TRUE, bytes |-> <<>>]
Bytes(b) == [rejected |-> FALSE, bytes |-> b]
DecodingOf(d) == IF d.ok THEN Bytes(d.bytes) ELSE Rejection
ShapeResult(v) ==
    IF IsPair(v) THEN DecodingOf(b64decode(v.val[1]))
    ELSE IF IsKeyedPair(v) THEN DecodingOf(b64decode(GetKey(v, "data").val[1]))
    ELSE IF IsBytesType(v) THEN Bytes(v.val)
    ELSE Rejection
\* the base64 text of a pair or keyed pair, line breaks taken out
IsNotNewline(c) == c # 10
TextOf(v) ==
    SelectSeq(IF IsPair(v) THEN v.val[1].val ELSE GetKey(v, "data").val[1].val,
              IsNotNewline)
NormalizerResult(n) == IF n.cont \/ n.raw.none THEN Rejection ELSE Bytes(n.raw.bytes)
SampleIndex(acc) == CHOOSE k \in DOMAIN AccountUniverse : AccountUniverse[k] = acc
ShapeUniverse == [k \in DOMAIN AccountUniverse |-> ShapeResult(AccountUniverse[k])]

\* The normalizer on every sample: the result its shape calls for; accepted
\* text is the base64 encoding of the bytes it became; raw bytes are kept.
NormalizerContract ==
    \A k \in DOMAIN AccountUniverse :
        /\ NormalizerResult(NormalizedUniverse[k]) = ShapeUniverse[k]
        /\ (~ShapeUniverse[k].rejected /\ ~IsBytesType(AccountUniverse[k]))
              => b64encode(ShapeUniverse[k].bytes) = TextOf(AccountUniverse[k])
        /\ IsBytesType(AccountUniverse[k])
              => NormalizedUniverse[k].raw = RawOf(AccountUniverse[k].val)
\* the samples that are an empty pair, text with its padding lost, a keyed
\* structure whose "data" is no pair, and a keyed pair of such text
RejectedSamples ==
    \A k \in DOMAIN AccountUniverse :
        ShapeUniverse[k].rejected <=>
            \/ AccountUniverse[k] = PyList(<<>>)
            \/ (IsPair(AccountUniverse[k]) \/ IsKeyedPair(AccountUniverse[k]))
                  /\ Len(TextOf(AccountUniverse[k])) % 4 # 0
            \/ AccountUniverse[k].type = "dict" /\ ~IsKeyedPair(AccountUniverse[k])

\* C13: a non-empty pair becomes the base64 decoding of its first element,
\* a keyed structure whose "data" is such a pair the decoding of the inner
\* first element, raw bytes themselves; everything else (an empty pair, a
\* keyed structure without a usable pair, text that does not decode) is
\* rejected: it adds no round, and the scan goes on to the last account.
C13_NormalizerShapes ==
    /\ NormalizerContract
    /\ RejectedSamples
    /\ (sdk /\ resp.status = "ok" /\ spc \in {"loop", "scanned", "done"}) =>
          /\ Len(rounds) =
                Cardinality({i \in 1..Min2(idx - 1, Len(resp.value)) :
                    /\ ~ShapeUniverse[SampleIndex(resp.value[i])].rejected
                    /\ Len(ShapeUniverse[SampleIndex(resp.value[i])].bytes) >= RoundSize})
          /\ spc # "loop" => idx = Len(resp.value) + 1

\* A keyed structure without a usable pair came first; the keyed pair and
\* the pair after it were decoded.
C13_Witness ==
    /\ spc = "done" /\ Len(resp.value) = 3 /\ Len(rounds) = 2
    /\ resp.value[1].type = "dict" /\ ~IsKeyedPair(resp.value[1])
    /\ IsKeyedPair(resp.value[2]) /\ resp.value[3].type = "tuple"
    /\ rounds[1].id = 3 /\ rounds[2].id = 9

\* the steps of one iteration, and what may follow each ("Raised": the run
\* was left by an exception or an interruption)
StepOrder ==
    {<<"Fetching", "Deciding">>, <<"Fetching", "Done">>, <<"Deciding", "Acting">>,
     <<"Deciding", "Raised">>, <<"Acting", "Acting">>, <<"Acting", "Recording">>, <<"Acting", "Raised">>,
     <<"Recording", "Pacing">>, <<"Recording", "Fetching">>, <<"Recording", "Done">>,
     <<"Pacing", "Fetching">>}
\* calls of record_profit that have returned
RecordCalls == Len(ledger) + ledger_failures

\* C14: an iteration goes through Fetching, Deciding, Acting, Recording and
\* Pacing in this order.  The account source is queried once per iteration,
\* before pick_tiles; the tiles are gone through one at a time, after the
\* decision and before the round's record_profit call; the next fetch starts
\* only after that call has returned.
C14_StepsInOrder ==
    /\ [](/\ pc \in {"Deciding", "Acting", "Recording", "Raised"} => fetches = round_counter
          /\ pc \in {"Fetching", "Pacing", "Done"} => fetches = round_counter - 1
          /\ pc \in {"Fetching", "Deciding"} => RecordCalls = round_counter - 1
          /\ pc = "Recording" => /\ Len(deploys) + Len(notices) = Len(chosen_tiles)
                                 /\ RecordCalls = round_counter - 1)
    /\ [][/\ <<pc, pc'>> \in StepOrder
          /\ fetches' # fetches =>
                pc = "Fetching" /\ pc' = "Deciding" /\ fetches' = fetches + 1
          /\ pc = "Deciding" => fetches' = fetches /\ RecordCalls' = RecordCalls
          /\ (Len(deploys') > Len(deploys) \/ Len(notices') > Len(notices)) =>
                /\ pc = "Acting"
                /\ Len(deploys') + Len(notices') = Len(deploys) + Len(notices) + 1
                /\ RecordCalls' = RecordCalls /\ fetches' = fetches
          /\ RecordCalls' # RecordCalls =>
                /\ pc = "Recording" /\ RecordCalls' = RecordCalls + 1
                /\ deploys' = deploys /\ notices' = notices /\ fetches' = fetches
          /\ sleeps' # sleeps => pc = "Pacing" /\ pc' = "Fetching"]_vars

\* The second round of a live run, fetched after the first record and a
\* pause, has made its two deployments and is about to be recorded.
C14_Witness ==
    /\ pc = "Recording" /\ ~dry_run /\ round_counter = 2 /\ fetches = 2
    /\ Len(deploys) = 2 /\ Len(ledger) = 1 /\ sleeps = 1

\* deploy(tile_id, 0.01) for each of the tiles, in their order
ExpectedDeploys(tiles) ==
    [i \in 1..Len(tiles) |-> [tile |-> tiles[i], amount |-> DeployAmount]]

\* C15: in a live run deploy is called once for each chosen tile of every
\* round, in the order of pick_tiles' result, with the tile's id and the
\* amount 0.01, and no dry-run notice is printed: once the Acting step of a
\* round is over, the calls made in it are exactly those.
C15_LiveDeploysEachTileOnce ==
    ~dry_run =>
        /\ notices = <<>>
        /\ Len(deploys) <= Len(chosen_tiles)
        /\ deploys = SubSeq(ExpectedDeploys(chosen_tiles), 1, Len(deploys))
        /\ (pc \notin {"Deciding", "Acting"} /\ (pc = "Raised" => deploy_failed))
              => deploys = ExpectedDeploys(chosen_tiles)

\* What does hold in a live run: the calls made are the first chosen tiles,
\* in order, each with 0.01, all of them when the round gets to Recording.
LiveDeploysInOrder ==
    ~dry_run =>
        /\ notices = <<>>
        /\ Len(deploys) <= Len(chosen_tiles)
        /\ deploys = SubSeq(ExpectedDeploys(chosen_tiles), 1, Len(deploys))
        /\ pc \notin {"Deciding", "Acting", "Raised"} => deploys = ExpectedDeploys(chosen_tiles)

\* C16: the loop sleeps only between rounds.  After a round is recorded it
\* sleeps exactly when another iteration remains and the interval is
\* positive: one sleep after every recorded round but the last, K - 1 in a
\* run of K >= 1 rounds, none after the final record, and none at all with
\* the interval 0, to which the command line raises negative values.
C16_PacingOnlyBetweenRounds ==
    /\ [](/\ \A a \in CliSleepArgs : CliSleep(a) = IF a < 0 THEN 0 ELSE a
          /\ sleep >= 0
          /\ sleep = 0 => sleeps = 0 /\ pc # "Pacing"
          /\ pc = "Pacing" => LoopCondition(rounds_arg, round_counter)
          /\ sleep > 0 =>
                /\ pc = "Pacing" => sleeps = RecordCalls - 1
                /\ pc \in {"Fetching", "Deciding", "Acting", "Recording", "Raised"}
                      => sleeps = RecordCalls
                /\ (pc = "Done" /\ rounds_arg.n >= 1) =>
                      RecordCalls = rounds_arg.n /\ sleeps = rounds_arg.n - 1
                /\ (pc = "Done" /\ rounds_arg.n = 0) => sleeps = 0)
    /\ [][/\ sleeps' # sleeps =>
                sleeps' = sleeps + 1 /\ pc = "Pacing" /\ RecordCalls' = RecordCalls
          /\ pc = "Recording" =>
                (pc' = "Pacing" <=>
                    sleep > 0 /\ LoopCondition(rounds_arg, round_counter'))]_vars

\* A run of two rounds with a positive interval has returned after one sleep.
C16_Witness ==
    /\ pc = "Done" /\ rounds_arg = Bound(2) /\ sleep > 0
    /\ sleeps = 1 /\ RecordCalls = 2

\* the snapshot the claim describes for a RoundState r
IsSnapshotOf(s, r) ==
    /\ DOMAIN s = {"round_id", "tiles", "motherlode", "total_deployed"}
    /\ s.round_id = r.id
    /\ Len(s.tiles) = NumTiles
    /\ \A i \in 1..NumTiles :
          /\ s.tiles[i].id = i
          /\ s.tiles[i].sol_deployed.whole = r.deployed[i] \div LAMPORTS_PER_SOL
          /\ s.tiles[i].sol_deployed.nanos = r.deployed[i] % LAMPORTS_PER_SOL
    /\ s.motherlode = r.motherlode
    /\ s.total_deployed = r.total_deployed

\* C17: a snapshot that is not the fallback is built from the selected
\* round r: round_id is r.id, tiles has 25 entries, the i-th with id i and
\* r's i-th deployed amount divided by 1,000,000,000, and motherlode and
\* total_deployed are r's, in lamports.  r is both the decoded round with
\* the largest id and the RoundState the account was made from.
C17_SnapshotFields ==
    (spc = "done" /\ rounds # <<>>) =>
        /\ ~snapshot.raised
        /\ snapshot.value # FallbackSnapshot
        /\ \E k \in 1..Len(rounds) :
              /\ \A j \in 1..Len(rounds) : rounds[j].id <= rounds[k].id
              /\ IsSnapshotOf(snapshot.value, rounds[k])
        /\ IsSnapshotOf(snapshot.value, SampleRound(snapshot.value.round_id))

\* Round 9 was selected from two rounds: its first tile holds 1.0 SOL, its
\* second 18 lamports, its motherlode 2,000,000,009 lamports.
C17_Witness ==
    /\ spc = "done" /\ Len(rounds) = 2 /\ snapshot.value.round_id = 9
    /\ snapshot.value.tiles[1] = [id |-> 1, sol_deployed |-> [whole |-> 1, nanos |-> 0]]
    /\ snapshot.value.tiles[2] = [id |-> 2, sol_deployed |-> [whole |-> 0, nanos |-> 18]]
    /\ snapshot.value.motherlode = 2 * LAMPORTS_PER_SOL + 9

\* the accounts scanned so far that added no round
SkippedSoFar == (idx - 1) - Len(rounds)
\* the messages printed for single accounts
AccountMessages == {MsgB64Tuple, MsgB64Dict, MsgUnknown, MsgParse}
IsAccountMessage(m) == m \in AccountMessages
IsDummyMessage(m) == m = MsgDummy

\* C18: every account the scan skips is reported when it is skipped, and so
\* is every fallback: while the accounts are gone through, one message has
\* been printed for each account that added no round, and a fallback
\* snapshot comes with its warning.
C18_EverySkipReported ==
    /\ (sdk /\ resp.status = "ok" /\ spc = "loop") =>
          Len(SelectSeq(diag, IsAccountMessage)) = SkippedSoFar
    /\ (spc = "done" /\ snapshot.value = FallbackSnapshot) =>
          Len(SelectSeq(diag, IsDummyMessage)) = 1

\* What does hold: the accounts that take a `continue` of the format chain
\* are reported, one message each, and every fallback is; the accounts
\* dropped by the size filter (no bytes, or fewer than 584) are not.
ReportedSkips ==
    /\ (sdk /\ resp.status = "ok" /\ spc = "loop") =>
          /\ Len(SelectSeq(diag, IsAccountMessage)) =
                Cardinality({i \in 1..(idx - 1) : Normalized(resp.value[i]).cont})
          /\ SkippedSoFar - Len(SelectSeq(diag, IsAccountMessage)) =
                Cardinality({i \in 1..(idx - 1) :
                                /\ ~Normalized(resp.value[i]).cont
                                /\ NormalizedLen(resp.value[i]) < RoundSize})
    /\ (spc = "done" /\ snapshot.value = FallbackSnapshot) =>
          Len(SelectSeq(diag, IsDummyMessage)) = 1

\* the tiles acted upon in the current round: deployed to, or announced
ActedTiles ==
    IF dry_run THEN [i \in 1..Len(notices) |-> notices[i].tile]
    ELSE [i \in 1..Len(deploys) |-> deploys[i].tile]
\* The round ids the snapshots of a run can carry
\* (round_data.get("round_id", 0)).
LoopRoundIds ==
    {GetRoundId(s.value) : s \in ResultsWithSdk \cup ResultsWithoutSdk}

\* C19: a ledger record belongs to the iteration that wrote it: its round_id
\* is that of the snapshot fetched in the iteration (0 for the fallback),
\* its chosen_tiles are the tiles pick_tiles returned for that snapshot and
\* that were acted upon, and its round_profit is simulate_profit's value for
\* these tiles, whether or not a deployment failed.
C19_RecordMatchesIteration ==
    /\ [](/\ Len(recorded_at) = Len(ledger)
          /\ \A i \in 1..Len(ledger) :
                /\ ledger[i].round_profit = profits[recorded_at[i]]
                /\ ledger[i].round_profit \in simulate_profit(ledger[i].chosen_tiles)
                /\ ledger[i].chosen_tiles \in TileChoices
                /\ ledger[i].round_id \in LoopRoundIds)
    /\ [][Len(ledger') > Len(ledger) =>
            /\ pc = "Recording" /\ fetches = round_counter
            /\ \E s \in SnapshotResults : round_data = s.value
            /\ recorded_at'[Len(ledger')] = round_counter
            /\ ledger'[Len(ledger')].round_id = round_data.round_id
            /\ round_data = FallbackSnapshot => ledger'[Len(ledger')].round_id = 0
            /\ ledger'[Len(ledger')].chosen_tiles = chosen_tiles
            /\ ledger'[Len(ledger')].chosen_tiles = ActedTiles
            /\ ledger'[Len(ledger')].round_profit = profits'[round_counter]
            /\ ledger'[Len(ledger')].round_profit \in simulate_profit(chosen_tiles)]_vars

\* The record of a live round on snapshot 9 in which a deployment failed:
\* tiles 3 and 1, profit 5.
C19_Witness ==
    /\ ~dry_run /\ deploy_failed /\ pc \in {"Fetching", "Pacing", "Done"}
    /\ Len(ledger) = 2 /\ ledger[1].round_id = 0
    /\ ledger[2] = [round_id |-> 9, chosen_tiles |-> <<3, 1>>,
                    round_profit |-> 5, cumulative_profit |-> 2]

====
